---- MODULE Spec2Model ----
(***************************************************************************)
(* Google Sheets sync proxy (api/sync.js).  One handler invocation per     *)
(* request slot; every await on an external service (identity provider,    *)
(* KV counter store, Drive / Sheets backend) is one atomic step, followed   *)
(* by the handler's local code up to the next await.                        *)
(***************************************************************************)
EXTENDS Integers, Sequences, FiniteSets, TLC

\* ------------------------------------------------------------------ bounds
\* handler instances that may run concurrently
NumReq == 2
\* spreadsheets a Drive can hold (create fails beyond it)
MaxFiles == 2
\* data rows a worksheet can hold (append fails beyond it)
MaxRows == 2
\* largest column count given to getColumnLetter
MaxColumn == 703

\* ----------------------------------------------------- program constants
\* const RATE_LIMIT = process.env.RATE_LIMIT_PER_HOUR || 100, here configured to 2
RATE_LIMIT == 2
MOCK_USER == "mock_user_123"

Reqs == 1 .. NumReq
Subjects == {"u1"}
AllSubjects == Subjects \cup {MOCK_USER}
NoUser == "none"

\* ------------------------------------------------------------- JS values
\* A rowData element: an array of cells, null, or a string (a scalar that
\* happens to have a .length).
ArrayRow(n) == [t |-> "array", cells |-> [i \in 1 .. n |-> "v"]]
NullRow == [t |-> "null", cells |-> << >>]
StringRow == [t |-> "string", cells |-> <<"a", "b">>]

Undefined == [t |-> "undefined", items |-> << >>]
NotArray == [t |-> "string", items |-> << >>]
Arr(s) == [t |-> "array", items |-> s]

HeadersAB == <<"A", "B">>

\* sheetConfig values: absent, or an object with sheetName and headers
NoSheetConfig == [t |-> "undefined", sheetName |-> "", headers |-> Undefined]
SheetConfig(name, headers) == [t |-> "object", sheetName |-> name, headers |-> headers]

SheetConfigs ==
    { NoSheetConfig,
      SheetConfig("", Arr(HeadersAB)),
      SheetConfig("S", NotArray),
      SheetConfig("S", Arr(<< >>)),
      SheetConfig("S", Arr(HeadersAB)) }

RowDatas ==
    { Undefined, NotArray, Arr(<< >>),
      Arr(<<ArrayRow(0)>>),
      Arr(<<ArrayRow(1)>>),
      Arr(<<ArrayRow(2)>>),
      Arr(<<ArrayRow(2), ArrayRow(2)>>),
      Arr(<<ArrayRow(2), ArrayRow(1)>>),
      Arr(<<StringRow>>),
      Arr(<<NullRow>>),
      Arr(<<NullRow, ArrayRow(1)>>) }

NoBody == [t |-> "undefined", accessToken |-> "", refreshToken |-> "",
           sheetConfig |-> NoSheetConfig, rowData |-> Undefined]

Bodies ==
    { NoBody } \cup
    [t : {"object"}, accessToken : {"", "tok"}, refreshToken : {"", "rt"},
     sheetConfig : SheetConfigs, rowData : RowDatas]

\* the body a well-behaved client sends
GoodBody(rt) == [t |-> "object", accessToken |-> "tok", refreshToken |-> rt,
                 sheetConfig |-> SheetConfig("S", Arr(HeadersAB)),
                 rowData |-> Arr(<<ArrayRow(2)>>)]

Requests ==
    { [method |-> "POST", body |-> b] : b \in Bodies } \cup
    { [method |-> m, body |-> b] : m \in {"OPTIONS", "GET"},
                                   b \in {NoBody, GoodBody("")} }

NoRequest == [method |-> "", body |-> NoBody]

\* ------------------------------------------------------------- responses
\* the three res.setHeader calls at the top of the handler, with
\* process.env.ALLOWED_ORIGIN unset
CorsHeaders ==
    [allowOrigin |-> "*", allowMethods |-> "POST, OPTIONS",
     allowHeaders |-> "Content-Type"]
NoHeaders == [allowOrigin |-> "", allowMethods |-> "", allowHeaders |-> ""]

Response(status, error) ==
    [status |-> status, error |-> error, rowsAdded |-> 0, spreadsheetId |-> 0,
     tokenRefreshed |-> FALSE, cors |-> CorsHeaders]
NoResponse == [Response(0, "") EXCEPT !.cors = NoHeaders]

\* a handler that answers 404 to the methods it does not serve
MethodNotFound == Response(404, "not_found")

MethodNotAllowed == Response(405, "method_not_allowed")
MissingFields == Response(400, "missing_fields")
InvalidSchema == Response(400, "invalid_schema")
Unauthorized == Response(401, "invalid_token")
RateLimited == Response(429, "rate_limit_exceeded")

\* a success response that always reports tokenRefreshed: false
SuccessResponseUnflagged(rowsAdded, spreadsheetId, isRetry) ==
    [status |-> 200, error |-> "", rowsAdded |-> rowsAdded,
     spreadsheetId |-> spreadsheetId, tokenRefreshed |-> FALSE,
     cors |-> CorsHeaders]

\* a success response that reports one write instead of the rows written
SuccessResponseOneWrite(rowsAdded, spreadsheetId, isRetry) ==
    [status |-> 200, error |-> "", rowsAdded |-> 1,
     spreadsheetId |-> spreadsheetId, tokenRefreshed |-> isRetry,
     cors |-> CorsHeaders]

SuccessResponse(rowsAdded, spreadsheetId, isRetry) ==
    [status |-> 200, error |-> "", rowsAdded |-> rowsAdded,
     spreadsheetId |-> spreadsheetId, tokenRefreshed |-> isRetry,
     cors |-> CorsHeaders]

\* ---------------------------------------------------------------- errors
\* Error messages, word by word; String.prototype.includes is a contiguous,
\* case-sensitive search.
Includes(msg, needle) ==
    \E i \in 1 .. (Len(msg) - Len(needle) + 1) :
        \A j \in 1 .. Len(needle) : msg[i + j - 1] = needle[j]

HeaderMismatchNeedle == <<"Header", "mismatch">>

MismatchMessage ==
    <<"Sheet", "headers", "do", "not", "match", "configuration.",
      "Please", "update", "client", "sheetConfig.headers", "to", "match",
      "the", "spreadsheet", "or", "delete", "the", "file", "in", "Google",
      "Drive", "to", "recreate", "it.">>

BackendMessage == <<"Request", "failed">>
TypeErrorMessage == <<"Cannot", "read", "properties", "of", "null">>
AppendFailedMessage(msg) == <<"Failed", "to", "append", "data:">> \o msg

\* a catch block that reports every other error as 401 invalid_token
HandleErrorAsUnauthorized(msg) ==
    IF Includes(msg, HeaderMismatchNeedle)
    THEN Response(400, "header_mismatch")
    ELSE Unauthorized

\* the handler's catch block
HandleError(msg) ==
    IF Includes(msg, HeaderMismatchNeedle)
    THEN Response(400, "header_mismatch")
    ELSE Response(500, "server_error")

\* ------------------------------------------------------ request validation
\* rowData.some(row => row.length !== headerCount): rows are visited in order;
\* reading .length of null throws.
RECURSIVE SomeRowLengthDiffers(_, _)
SomeRowLengthDiffers(rows, headerCount) ==
    IF rows = << >> THEN "false"
    ELSE IF Head(rows).t = "null" THEN "throw"
    ELSE IF Len(Head(rows).cells) # headerCount THEN "true"
    ELSE SomeRowLengthDiffers(Tail(rows), headerCount)

\* the synchronous part of the handler before attemptSync: the response it
\* sends, or NoResponse when the request passes
ValidateRequest(body) ==
    IF body.t = "undefined" THEN HandleError(TypeErrorMessage)
    ELSE IF body.accessToken = "" \/ body.sheetConfig.t = "undefined"
            \/ body.rowData.t = "undefined"
    THEN MissingFields
    ELSE IF body.sheetConfig.sheetName = "" \/ body.sheetConfig.headers.t # "array"
    THEN InvalidSchema
    ELSE IF body.rowData.t # "array" \/ Len(body.rowData.items) = 0
    THEN InvalidSchema
    ELSE LET some == SomeRowLengthDiffers(body.rowData.items,
                                          Len(body.sheetConfig.headers.items))
         IN  CASE some = "true" -> InvalidSchema
               [] some = "throw" -> HandleError(TypeErrorMessage)
               [] OTHER -> NoResponse

\* ------------------------------------------------------- identity provider
ClientIdUnset == ""
CLIENT_ID == "app"
\* values process.env.GOOGLE_CLIENT_ID can have when it is read
ClientIds == {ClientIdUnset, CLIENT_ID}

\* Math.floor(Date.now() / 1000) at the time of the check
Times == {1}
ExpiryTimes == {0, 1, 2}

SCOPE_SHEETS == "https://www.googleapis.com/auth/spreadsheets"
SCOPE_DRIVE_FILE == "https://www.googleapis.com/auth/drive.file"
validScopes == {SCOPE_SHEETS, SCOPE_DRIVE_FILE}
NoScope == <<"absent">>

\* tokeninfo.scope after split(' '), or NoScope when the field is missing
ScopeLists ==
    { NoScope, <<SCOPE_SHEETS>>, <<SCOPE_DRIVE_FILE>>, <<"email">>,
      <<"email", SCOPE_SHEETS>> }

\* what the tokeninfo endpoint can answer: the fetch throws, a non-2xx
\* status, or a token description
IntrospectResponsesFor(subs) ==
    [kind : {"ok"}, aud : {CLIENT_ID, "other"}, exp : ExpiryTimes,
     scope : ScopeLists, azp : {"", CLIENT_ID, "other"}, sub : subs]
    \cup
    { [kind |-> k, aud |-> "", exp |-> 0, scope |-> NoScope, azp |-> "",
       sub |-> NoUser] : k \in {"throw", "not_ok"} }

IntrospectResponses == IntrospectResponsesFor(Subjects)

\* a validation without the audience gate
validateAccessTokenAnyAudience(resp, now, clientId) ==
    IF resp.kind # "ok" THEN NoUser
    ELSE IF resp.exp < now THEN NoUser
    ELSE IF ~ (resp.scope # NoScope
               /\ \E i \in 1 .. Len(resp.scope) : resp.scope[i] \in validScopes)
    THEN NoUser
    ELSE IF resp.azp # "" /\ clientId # ClientIdUnset /\ resp.azp # clientId
    THEN NoUser
    ELSE resp.sub

\* a validation without the scope gate
validateAccessTokenAnyScope(resp, now, clientId) ==
    IF resp.kind # "ok" THEN NoUser
    ELSE IF clientId # ClientIdUnset /\ resp.aud # clientId THEN NoUser
    ELSE IF resp.exp < now THEN NoUser
    ELSE IF resp.azp # "" /\ clientId # ClientIdUnset /\ resp.azp # clientId
    THEN NoUser
    ELSE resp.sub

\* a validation without the authorized-party gate
validateAccessTokenAnyParty(resp, now, clientId) ==
    IF resp.kind # "ok" THEN NoUser
    ELSE IF clientId # ClientIdUnset /\ resp.aud # clientId THEN NoUser
    ELSE IF resp.exp < now THEN NoUser
    ELSE IF ~ (resp.scope # NoScope
               /\ \E i \in 1 .. Len(resp.scope) : resp.scope[i] \in validScopes)
    THEN NoUser
    ELSE resp.sub

\* validateAccessToken: the subject of the token, or NoUser for null
validateAccessToken(resp, now, clientId) ==
    IF resp.kind # "ok" THEN NoUser
    ELSE IF clientId # ClientIdUnset /\ resp.aud # clientId THEN NoUser
    ELSE IF resp.exp < now THEN NoUser
    ELSE IF ~ (resp.scope # NoScope
               /\ \E i \in 1 .. Len(resp.scope) : resp.scope[i] \in validScopes)
    THEN NoUser
    ELSE IF resp.azp # "" /\ clientId # ClientIdUnset /\ resp.azp # clientId
    THEN NoUser
    ELSE resp.sub

\* what the token endpoint can answer to a refresh_token grant
RefreshResponses == {"throw", "not_ok", "ok_no_token", "ok_token"}

\* a refresh that takes any 2xx answer for a new token
refreshAccessTokenAnyOk(resp) == resp \in {"ok_token", "ok_no_token"}

\* refreshAccessToken: TRUE when it returns a (truthy) new access token
refreshAccessToken(resp) == resp = "ok_token"

\* a refresh guard that forgets isRetry
MayRefreshIgnoringRetry(refreshToken, isRetry) == refreshToken # ""

\* an attemptSync that introspects the token in mock mode too
SkipsValidationNever(mock) == FALSE

\* if (MOCK_MODE) tokenInfo = { sub: 'mock_user_123' }
SkipsValidation(mock) == mock

\* if (refreshToken && !isRetry)
MayRefresh(refreshToken, isRetry) == refreshToken # "" /\ ~ isRetry

\* ------------------------------------------------------------ rate limiter
\* an off-by-one threshold test
AtLimitStrict(current) == current > RATE_LIMIT

\* current >= RATE_LIMIT
AtLimit(current) == current >= RATE_LIMIT

\* a limiter that fails closed
RateLimitFailClosed == FALSE

\* the catch block of checkRateLimit: fail open
RateLimitOnStoreError == TRUE

\* ------------------------------------------------------------ spreadsheets
\* JSON.stringify of an array of strings, token by token
RECURSIVE JSONItems(_)
JSONItems(s) ==
    IF s = << >> THEN << >>
    ELSE IF Len(s) = 1 THEN <<"\"", s[1], "\"">>
    ELSE <<"\"", s[1], "\"", ",">> \o JSONItems(Tail(s))

JSONStringify(s) == <<"[">> \o JSONItems(s) \o <<"]">>

\* ensureHeaders: the message of the error it lets escape, or << >> when it
\* returns normally.  getOk: values.get answered; existing: the first row.
ensureHeaders(getOk, existing, headers) ==
    LET thrown == IF ~ getOk THEN BackendMessage
                  ELSE IF JSONStringify(existing) # JSONStringify(headers)
                       THEN MismatchMessage
                       ELSE << >>
    IN  IF thrown # << >> /\ Includes(thrown, HeaderMismatchNeedle)
        THEN thrown
        ELSE << >>

\* getColumnLetter with the decrement left out
RECURSIVE ColumnLoopNoDecrement(_, _)
ColumnLoopNoDecrement(colIndex, col) ==
    IF colIndex > 0
    THEN ColumnLoopNoDecrement(colIndex \div 26, <<(colIndex % 26) + 65>> \o col)
    ELSE col

getColumnLetterNoDecrement(colIndex) == ColumnLoopNoDecrement(colIndex, << >>)

\* the while loop of getColumnLetter; col is the string built so far, as the
\* sequence of its char codes (String.fromCharCode(k) is <<k>>)
RECURSIVE ColumnLoop(_, _)
ColumnLoop(colIndex, col) ==
    IF colIndex > 0
    THEN LET zeroBased == colIndex - 1
         IN  ColumnLoop(zeroBased \div 26, <<(zeroBased % 26) + 65>> \o col)
    ELSE col

getColumnLetter(colIndex) == ColumnLoop(colIndex, << >>)

\* the older getColumnLetter with the offset of one left out of the remainder
RECURSIVE LegacyColumnLoopNoOffset(_, _)
LegacyColumnLoopNoOffset(colIndex, letter) ==
    IF colIndex > 0
    THEN LET temp == colIndex % 26
         IN  LegacyColumnLoopNoOffset((colIndex - temp - 1) \div 26,
                                      <<temp + 65>> \o letter)
    ELSE letter

LegacyGetColumnLetterNoOffset(colIndex) ==
    LegacyColumnLoopNoOffset(colIndex, << >>)

\* the while loop of getColumnLetter in unnamed/part_000: temp is the last
\* digit, Math.floor of a quotient is \div
RECURSIVE LegacyColumnLoop(_, _)
LegacyColumnLoop(colIndex, letter) ==
    IF colIndex > 0
    THEN LET temp == (colIndex - 1) % 26
         IN  LegacyColumnLoop((colIndex - temp - 1) \div 26,
                              <<temp + 65>> \o letter)
    ELSE letter

LegacyGetColumnLetter(colIndex) == LegacyColumnLoop(colIndex, << >>)

\* a spreadsheet file in Drive: title, first row of Sheet1, data rows
File(name, firstRow) ==
    [name |-> name, firstRow |-> firstRow, rows |-> << >>, trashed |-> FALSE]
\* the same file moved to the bin
Trashed(f) == [f EXCEPT !.trashed = TRUE]

FirstRows == { << >>, <<"A", "B">>, <<"B", "A">>, <<"a", "B">>, <<"A">> }

\* Drive before the first request: empty, one spreadsheet of the name the
\* clients ask for, that spreadsheet in the bin, or a spreadsheet of another
\* name alone or before it
InitialDrives ==
    { << >> } \cup { <<File("S", h)>> : h \in FirstRows }
    \cup { <<Trashed(File("S", HeadersAB))>>,
           <<File("T", HeadersAB)>>,
           <<File("T", HeadersAB), File("S", HeadersAB)>> }

\* a search that leaves out trashed=false
FilesNamedWithTrashed(d, name) == { i \in 1 .. Len(d) : d[i].name = name }

\* ids of the non-trashed spreadsheets named name
FilesNamed(d, name) ==
    { i \in 1 .. Len(d) : d[i].name = name /\ ~ d[i].trashed }

\* ------------------------------------------------------------------ state
VARIABLES
    MOCK_MODE,      \* process.env.MOCK_MODE === 'true'
    production,     \* process.env.NODE_ENV === 'production'
    loaded,         \* the module was evaluated without throwing
    pc,             \* per handler instance: the call it awaits
    request,        \* per instance: req (method and body)
    isRetry,        \* per instance: attemptSync's isRetry
    userId,         \* per instance: tokenInfo.sub
    current,        \* per instance: checkRateLimit's current (-1 outside it)
    spreadsheetId,  \* per instance: the resolved spreadsheet (0: none)
    response,       \* per instance: what res.status(..).json(..) sent
    log,            \* per instance: the external calls made so far
    counter,        \* KV store: ratelimit:<sub> (0: no such key)
    ttl,            \* KV store: the key has an expiry
    granted,        \* per subject: increments granted in the key's lifetime
    drive,          \* per account: the spreadsheets in Drive
    tokenCheck,     \* a direct call of validateAccessToken: inputs and result
    columnCall,     \* a direct call of getColumnLetter: input and result
    rateLimitStore  \* the older handler's in-memory Map: count per subject

vars == <<MOCK_MODE, production, loaded, pc, request, isRetry, userId, current,
          spreadsheetId, response, log, counter, ttl, granted, drive,
          tokenCheck, columnCall, rateLimitStore>>

env == <<MOCK_MODE, production, loaded>>
kvStore == <<counter, ttl, granted>>
\* what the handler of api/sync.js never touches
aside == <<tokenCheck, columnCall, rateLimitStore>>

\* the calls of one request: the results of the validations and the answers to
\* the refresh exchanges in order, counts of store and backend calls, what
\* they met, the tokens sent for validation in order, and the tokens the
\* Drive / Sheets calls carried
NoLog ==
    [val |-> << >>, ref |-> << >>, kvCalls |-> 0, kvFailed |-> FALSE,
     atLimit |-> FALSE, sheetCalls |-> 0, appendCalls |-> 0,
     backendFailed |-> FALSE, mismatch |-> FALSE,
     validated |-> << >>, tokensUsed |-> {}]

\* the account whose Drive the active token opens; the token is not
\* introspected in mock mode, the one account of the model owns it
Account(r) == IF MOCK_MODE THEN "u1" ELSE userId[r]

\* no direct call of validateAccessToken is under way
NoTokenCheck ==
    [resp |-> [kind |-> "not_ok", aud |-> "", exp |-> 0, scope |-> NoScope,
               azp |-> "", sub |-> NoUser],
     now |-> 0, clientId |-> ClientIdUnset, result |-> "pending"]

\* a module that loads whatever the environment is
ModuleLoadsAlways(mock, prod) == TRUE

\* evaluating the module throws when MOCK_MODE meets NODE_ENV=production
ModuleLoads(mock, prod) == ~ (mock /\ prod)

\* the module is loaded and every handler instance is idle
InitHandler ==
    /\ MOCK_MODE \in BOOLEAN
    /\ production \in BOOLEAN
    /\ loaded = ModuleLoads(MOCK_MODE, production)
    /\ pc = [r \in Reqs |-> "idle"]
    /\ request = [r \in Reqs |-> NoRequest]
    /\ isRetry = [r \in Reqs |-> FALSE]
    /\ userId = [r \in Reqs |-> NoUser]
    /\ current = [r \in Reqs |-> -1]
    /\ spreadsheetId = [r \in Reqs |-> 0]
    /\ response = [r \in Reqs |-> NoResponse]
    /\ log = [r \in Reqs |-> NoLog]
    /\ counter = [u \in AllSubjects |-> 0]
    /\ ttl = [u \in AllSubjects |-> FALSE]
    /\ granted = [u \in AllSubjects |-> 0]
    /\ \E d \in InitialDrives : drive = [a \in Subjects |-> d]

\* no direct call of getColumnLetter is under way
NoColumnCall ==
    [colIndex |-> 0, returned |-> FALSE, col |-> << >>,
     legacyReturned |-> FALSE, letter |-> << >>]

\* new Map()
EmptyRateLimitStore == [u \in AllSubjects |-> 0]

Init ==
    /\ InitHandler
    /\ tokenCheck = NoTokenCheck
    /\ columnCall = NoColumnCall
    /\ rateLimitStore = EmptyRateLimitStore

\* data.access_token of a successful refresh exchange
NewAccessToken == "tok2"

\* the activeToken of the attemptSync invocation that is running: the body's
\* accessToken in attemptSync(accessToken), the new token in
\* attemptSync(newToken, true)
activeToken(r) ==
    IF isRetry[r] THEN NewAccessToken ELSE request[r].body.accessToken

\* credentials that are always the token of the request body
CredentialsFromBody(r) == request[r].body.accessToken

\* auth.setCredentials({ access_token: activeToken })
Credentials(r) == activeToken(r)

\* res.status(..).json(..): the handler returns
Respond(r, resp) ==
    /\ pc' = [pc EXCEPT ![r] = "done"]
    /\ response' = [response EXCEPT ![r] = resp]
    /\ current' = [current EXCEPT ![r] = -1]

\* ---------------------------------------------------------------- handler
\* A request arrives at an idle instance: method check, request validation,
\* and attemptSync up to its first await.
Receive(r, rq) ==
    /\ loaded
    /\ pc[r] = "idle"
    /\ request' = [request EXCEPT ![r] = rq]
    /\ UNCHANGED <<isRetry, spreadsheetId, log, current>>
    /\ IF rq.method = "OPTIONS"
       THEN /\ pc' = [pc EXCEPT ![r] = "done"]
            /\ response' = [response EXCEPT ![r] = Response(200, "")]
            /\ userId' = [userId EXCEPT ![r] = NoUser]
       ELSE IF rq.method # "POST"
       THEN /\ pc' = [pc EXCEPT ![r] = "done"]
            /\ response' = [response EXCEPT ![r] = MethodNotAllowed]
            /\ userId' = [userId EXCEPT ![r] = NoUser]
       ELSE IF ValidateRequest(rq.body) # NoResponse
       THEN /\ pc' = [pc EXCEPT ![r] = "done"]
            /\ response' = [response EXCEPT ![r] = ValidateRequest(rq.body)]
            /\ userId' = [userId EXCEPT ![r] = NoUser]
       ELSE /\ response' = [response EXCEPT ![r] = NoResponse]
            /\ IF SkipsValidation(MOCK_MODE)
               THEN /\ pc' = [pc EXCEPT ![r] = "kvGet"]
                    /\ userId' = [userId EXCEPT ![r] = MOCK_USER]
               ELSE /\ pc' = [pc EXCEPT ![r] = "validate"]
                    /\ userId' = [userId EXCEPT ![r] = NoUser]
    /\ UNCHANGED <<env, aside, kvStore, drive>>

\* The response is on its way and the invocation ends: its locals are gone and
\* the instance is free for the next request.
Return(r) ==
    /\ pc[r] = "done"
    /\ pc' = [pc EXCEPT ![r] = "idle"]
    /\ request' = [request EXCEPT ![r] = NoRequest]
    /\ isRetry' = [isRetry EXCEPT ![r] = FALSE]
    /\ userId' = [userId EXCEPT ![r] = NoUser]
    /\ current' = [current EXCEPT ![r] = -1]
    /\ spreadsheetId' = [spreadsheetId EXCEPT ![r] = 0]
    /\ response' = [response EXCEPT ![r] = NoResponse]
    /\ log' = [log EXCEPT ![r] = NoLog]
    /\ UNCHANGED <<env, aside, kvStore, drive>>

\* await validateAccessToken(activeToken), then step 2 of attemptSync
ValidateToken(r, resp, now, clientId) ==
    /\ pc[r] = "validate"
    /\ LET sub == validateAccessToken(resp, now, clientId)
       IN  /\ log' = [log EXCEPT ![r].val = Append(@, sub # NoUser),
                                 ![r].validated = Append(@, activeToken(r))]
           /\ userId' = [userId EXCEPT ![r] = sub]
           /\ IF sub # NoUser
              THEN /\ pc' = [pc EXCEPT ![r] = "kvGet"]
                   /\ UNCHANGED <<response, current>>
              ELSE IF MayRefresh(request[r].body.refreshToken, isRetry[r])
              THEN /\ pc' = [pc EXCEPT ![r] = "refresh"]
                   /\ UNCHANGED <<response, current>>
              ELSE Respond(r, Unauthorized)
    /\ UNCHANGED <<env, aside, request, isRetry, spreadsheetId, kvStore, drive>>

\* await refreshAccessToken(refreshToken), then attemptSync(newToken, true)
RefreshToken(r, resp) ==
    /\ pc[r] = "refresh"
    /\ log' = [log EXCEPT ![r].ref = Append(@, resp)]
    /\ IF refreshAccessToken(resp)
       THEN /\ isRetry' = [isRetry EXCEPT ![r] = TRUE]
            /\ pc' = [pc EXCEPT ![r] = "validate"]
            /\ UNCHANGED <<response, current>>
       ELSE /\ Respond(r, Unauthorized)
            /\ UNCHANGED isRetry
    /\ UNCHANGED <<env, aside, request, userId, spreadsheetId, kvStore, drive>>

\* ------------------------------------------------------------ checkRateLimit
\* checkRateLimit returned: the handler goes on to the spreadsheet steps or
\* answers 429
\* a handler that returns without a response when the limiter denies
RateLimitReturnsSilent(r, allowed) ==
    /\ pc' = [pc EXCEPT ![r] = IF allowed THEN "list" ELSE "returned"]
    /\ current' = [current EXCEPT ![r] = -1]
    /\ UNCHANGED response

\* a handler that goes on to the spreadsheet steps whatever the limiter said
RateLimitReturnsIgnored(r, allowed) ==
    /\ pc' = [pc EXCEPT ![r] = "list"]
    /\ current' = [current EXCEPT ![r] = -1]
    /\ UNCHANGED response

RateLimitReturns(r, allowed) ==
    IF allowed
    THEN /\ pc' = [pc EXCEPT ![r] = "list"]
         /\ current' = [current EXCEPT ![r] = -1]
         /\ UNCHANGED response
    ELSE Respond(r, RateLimited)

\* a limiter that counts the requests it denies
KvGetCountingDenied(r, ok) ==
    /\ pc[r] = "kvGet"
    /\ log' = [log EXCEPT ![r].kvCalls = @ + 1,
                          ![r].kvFailed = @ \/ ~ ok,
                          ![r].atLimit = counter[userId[r]] >= RATE_LIMIT]
    /\ IF ~ ok
       THEN /\ RateLimitReturns(r, RateLimitOnStoreError)
            /\ UNCHANGED kvStore
       ELSE IF AtLimit(counter[userId[r]])
       THEN /\ RateLimitReturns(r, FALSE)
            /\ counter' = [counter EXCEPT ![userId[r]] = @ + 1]
            /\ UNCHANGED <<ttl, granted>>
       ELSE /\ pc' = [pc EXCEPT ![r] = "kvIncr"]
            /\ current' = [current EXCEPT ![r] = counter[userId[r]]]
            /\ UNCHANGED <<response, kvStore>>
    /\ UNCHANGED <<env, aside, request, isRetry, userId, spreadsheetId, drive>>

\* const current = await kv.get(key) || 0; if (current >= RATE_LIMIT) return false
KvGet(r, ok) ==
    /\ pc[r] = "kvGet"
    /\ log' = [log EXCEPT ![r].kvCalls = @ + 1,
                          ![r].kvFailed = @ \/ ~ ok,
                          ![r].atLimit = counter[userId[r]] >= RATE_LIMIT]
    /\ IF ~ ok THEN RateLimitReturns(r, RateLimitOnStoreError)
       ELSE IF AtLimit(counter[userId[r]]) THEN RateLimitReturns(r, FALSE)
       ELSE /\ pc' = [pc EXCEPT ![r] = "kvIncr"]
            /\ current' = [current EXCEPT ![r] = counter[userId[r]]]
            /\ UNCHANGED response
    /\ UNCHANGED <<env, aside, request, isRetry, userId, spreadsheetId, kvStore, drive>>

\* a limiter with one key for every subject
KvIncrSharedKey(r, ok) ==
    /\ pc[r] = "kvIncr"
    /\ log' = [log EXCEPT ![r].kvCalls = @ + 1, ![r].kvFailed = @ \/ ~ ok]
    /\ IF ~ ok
       THEN /\ RateLimitReturns(r, RateLimitOnStoreError)
            /\ UNCHANGED kvStore
       ELSE /\ counter' = [u \in DOMAIN counter |-> counter[u] + 1]
            /\ granted' = [granted EXCEPT ![userId[r]] = @ + 1]
            /\ UNCHANGED ttl
            /\ IF current[r] = 0
               THEN /\ pc' = [pc EXCEPT ![r] = "kvExpire"]
                    /\ UNCHANGED <<response, current>>
               ELSE RateLimitReturns(r, TRUE)
    /\ UNCHANGED <<env, aside, request, isRetry, userId, spreadsheetId, drive>>

\* a limiter that counts a request twice
KvIncrTwice(r, ok) ==
    /\ pc[r] = "kvIncr"
    /\ log' = [log EXCEPT ![r].kvCalls = @ + 1, ![r].kvFailed = @ \/ ~ ok]
    /\ IF ~ ok
       THEN /\ RateLimitReturns(r, RateLimitOnStoreError)
            /\ UNCHANGED kvStore
       ELSE /\ counter' = [counter EXCEPT ![userId[r]] = @ + 2]
            /\ granted' = [granted EXCEPT ![userId[r]] = @ + 1]
            /\ UNCHANGED ttl
            /\ IF current[r] = 0
               THEN /\ pc' = [pc EXCEPT ![r] = "kvExpire"]
                    /\ UNCHANGED <<response, current>>
               ELSE RateLimitReturns(r, TRUE)
    /\ UNCHANGED <<env, aside, request, isRetry, userId, spreadsheetId, drive>>

\* a limiter that renews the expiry on every grant
KvIncrAlwaysExpires(r, ok) ==
    /\ pc[r] = "kvIncr"
    /\ log' = [log EXCEPT ![r].kvCalls = @ + 1, ![r].kvFailed = @ \/ ~ ok]
    /\ IF ~ ok
       THEN /\ RateLimitReturns(r, RateLimitOnStoreError)
            /\ UNCHANGED kvStore
       ELSE /\ counter' = [counter EXCEPT ![userId[r]] = @ + 1]
            /\ granted' = [granted EXCEPT ![userId[r]] = @ + 1]
            /\ pc' = [pc EXCEPT ![r] = "kvExpire"]
            /\ UNCHANGED <<ttl, response, current>>
    /\ UNCHANGED <<env, aside, request, isRetry, userId, spreadsheetId, drive>>

\* await kv.incr(key); if (current === 0) ... else return true
KvIncr(r, ok) ==
    /\ pc[r] = "kvIncr"
    /\ log' = [log EXCEPT ![r].kvCalls = @ + 1, ![r].kvFailed = @ \/ ~ ok]
    /\ IF ~ ok
       THEN /\ RateLimitReturns(r, RateLimitOnStoreError)
            /\ UNCHANGED kvStore
       ELSE /\ counter' = [counter EXCEPT ![userId[r]] = @ + 1]
            /\ granted' = [granted EXCEPT ![userId[r]] = @ + 1]
            /\ UNCHANGED ttl
            /\ IF current[r] = 0
               THEN /\ pc' = [pc EXCEPT ![r] = "kvExpire"]
                    /\ UNCHANGED <<response, current>>
               ELSE RateLimitReturns(r, TRUE)
    /\ UNCHANGED <<env, aside, request, isRetry, userId, spreadsheetId, drive>>

\* await kv.expire(key, RATE_WINDOW); return true
KvExpire(r, ok) ==
    /\ pc[r] = "kvExpire"
    /\ log' = [log EXCEPT ![r].kvCalls = @ + 1, ![r].kvFailed = @ \/ ~ ok]
    /\ IF ~ ok
       THEN /\ RateLimitReturns(r, RateLimitOnStoreError)
            /\ UNCHANGED kvStore
       ELSE /\ ttl' = [ttl EXCEPT ![userId[r]] = @ \/ counter[userId[r]] > 0]
            /\ UNCHANGED <<counter, granted>>
            /\ RateLimitReturns(r, TRUE)
    /\ UNCHANGED <<env, aside, request, isRetry, userId, spreadsheetId, drive>>

\* the store drops a key whose expiry (RATE_WINDOW seconds) has passed
KeyExpires(u) ==
    /\ ttl[u]
    /\ counter' = [counter EXCEPT ![u] = 0]
    /\ ttl' = [ttl EXCEPT ![u] = FALSE]
    /\ granted' = [granted EXCEPT ![u] = 0]
    /\ UNCHANGED <<env, aside, pc, request, isRetry, userId, current, spreadsheetId,
                   response, log, drive>>

\* ------------------------------------------------- findOrCreateSpreadsheet
\* a handler that tries a failed append again
BackendThrowsRetryAppend(r, msg) ==
    IF pc[r] = "append"
    THEN /\ pc' = pc
         /\ UNCHANGED <<response, current>>
    ELSE Respond(r, HandleError(msg))

\* a catch block that reports success
BackendThrowsReportsSuccess(r, msg) ==
    Respond(r, SuccessResponse(0, spreadsheetId[r], isRetry[r]))

\* a Drive / Sheets call threw and nothing on the way swallowed the error
BackendThrows(r, msg) == Respond(r, HandleError(msg))

\* await drive.files.list(..)
DriveList(r, ok) ==
    /\ pc[r] = "list"
    /\ log' = [log EXCEPT ![r].sheetCalls = @ + 1,
                          ![r].tokensUsed = @ \cup {Credentials(r)},
                          ![r].backendFailed = @ \/ ~ ok]
    /\ IF ~ ok
       THEN /\ BackendThrows(r, BackendMessage)
            /\ UNCHANGED spreadsheetId
       ELSE LET found == FilesNamed(drive[Account(r)],
                                    request[r].body.sheetConfig.sheetName)
            IN  IF found # {}
                THEN /\ \E id \in found :
                            spreadsheetId' = [spreadsheetId EXCEPT ![r] = id]
                     /\ pc' = [pc EXCEPT ![r] = "getHeaders"]
                     /\ UNCHANGED <<response, current>>
                ELSE /\ pc' = [pc EXCEPT ![r] = "create"]
                     /\ UNCHANGED <<response, current, spreadsheetId>>
    /\ UNCHANGED <<env, aside, request, isRetry, userId, kvStore, drive>>

\* an ensureHeaders that writes the configured headers over a differing row
GetHeadersOverwriting(r, ok) ==
    /\ pc[r] = "getHeaders"
    /\ LET existing == drive[Account(r)][spreadsheetId[r]].firstRow
           headers == request[r].body.sheetConfig.headers.items
       IN  /\ log' = [log EXCEPT ![r].sheetCalls = @ + 1,
                                 ![r].tokensUsed = @ \cup {Credentials(r)},
                                 ![r].backendFailed = @ \/ ~ ok,
                                 ![r].mismatch = ok /\ existing # headers]
           /\ drive' = IF ok /\ existing # headers
                       THEN [drive EXCEPT
                               ![Account(r)][spreadsheetId[r]].firstRow = headers]
                       ELSE drive
           /\ pc' = [pc EXCEPT ![r] = "append"]
    /\ UNCHANGED <<env, aside, request, isRetry, userId, spreadsheetId,
                   kvStore, response, current>>

\* ensureHeaders: await sheets.spreadsheets.values.get(..) and the comparison
GetHeaders(r, ok) ==
    /\ pc[r] = "getHeaders"
    /\ LET existing == drive[Account(r)][spreadsheetId[r]].firstRow
           headers == request[r].body.sheetConfig.headers.items
           thrown == ensureHeaders(ok, existing, headers)
       IN  /\ log' = [log EXCEPT ![r].sheetCalls = @ + 1,
                                 ![r].tokensUsed = @ \cup {Credentials(r)},
                                 ![r].backendFailed = @ \/ ~ ok,
                                 ![r].mismatch = ok /\ existing # headers]
           /\ IF thrown = << >>
              THEN /\ pc' = [pc EXCEPT ![r] = "append"]
                   /\ UNCHANGED <<response, current>>
              ELSE BackendThrows(r, thrown)
    /\ UNCHANGED <<env, aside, request, isRetry, userId, spreadsheetId, kvStore, drive>>

\* a create that looks again and returns a spreadsheet of the name that has
\* appeared since the search
CreateSheetIfAbsent(r, ok) ==
    /\ pc[r] = "create"
    /\ ok => Len(drive[Account(r)]) < MaxFiles
    /\ log' = [log EXCEPT ![r].sheetCalls = @ + 1,
                          ![r].tokensUsed = @ \cup {Credentials(r)},
                          ![r].backendFailed = @ \/ ~ ok]
    /\ LET name == request[r].body.sheetConfig.sheetName
           found == FilesNamed(drive[Account(r)], name)
       IN  IF ~ ok
           THEN /\ Respond(r, HandleError(BackendMessage))
                /\ UNCHANGED <<spreadsheetId, drive>>
           ELSE /\ pc' = [pc EXCEPT ![r] = "append"]
                /\ UNCHANGED <<response, current>>
                /\ IF found # {}
                   THEN /\ \E id \in found :
                              spreadsheetId' = [spreadsheetId EXCEPT ![r] = id]
                        /\ UNCHANGED drive
                   ELSE /\ drive' = [drive EXCEPT ![Account(r)] =
                              Append(@, File(name,
                                  request[r].body.sheetConfig.headers.items))]
                        /\ spreadsheetId' = [spreadsheetId EXCEPT ![r] =
                                                Len(drive[Account(r)]) + 1]
    /\ UNCHANGED <<env, aside, request, isRetry, userId, kvStore>>

\* await sheets.spreadsheets.create(..): Sheet1 with the headers as first row
CreateSheet(r, ok) ==
    /\ pc[r] = "create"
    /\ ok => Len(drive[Account(r)]) < MaxFiles
    /\ log' = [log EXCEPT ![r].sheetCalls = @ + 1,
                          ![r].tokensUsed = @ \cup {Credentials(r)},
                          ![r].backendFailed = @ \/ ~ ok]
    /\ IF ~ ok
       THEN /\ BackendThrows(r, BackendMessage)
            /\ UNCHANGED <<spreadsheetId, drive>>
       ELSE /\ drive' = [drive EXCEPT ![Account(r)] =
                  Append(@, File(request[r].body.sheetConfig.sheetName,
                                 request[r].body.sheetConfig.headers.items))]
            /\ spreadsheetId' =
                  [spreadsheetId EXCEPT ![r] = Len(drive[Account(r)]) + 1]
            /\ pc' = [pc EXCEPT ![r] = "append"]
            /\ UNCHANGED <<response, current>>
    /\ UNCHANGED <<env, aside, request, isRetry, userId, kvStore>>

\* appendData: await sheets.spreadsheets.values.append(..), then the 200
AppendRows(r, ok) ==
    /\ pc[r] = "append"
    /\ LET rows == request[r].body.rowData.items
           file == drive[Account(r)][spreadsheetId[r]]
       IN  /\ ok => Len(file.rows) + Len(rows) <= MaxRows
           /\ log' = [log EXCEPT ![r].sheetCalls = @ + 1,
                                 ![r].tokensUsed = @ \cup {Credentials(r)},
                                 ![r].appendCalls = @ + 1,
                                 ![r].backendFailed = @ \/ ~ ok]
           /\ IF ~ ok
              THEN /\ BackendThrows(r, AppendFailedMessage(BackendMessage))
                   /\ UNCHANGED drive
              ELSE /\ drive' = [drive EXCEPT ![Account(r)][spreadsheetId[r]].rows
                                                 = @ \o rows]
                   /\ Respond(r, SuccessResponse(Len(rows), spreadsheetId[r],
                                                 isRetry[r]))
    /\ UNCHANGED <<env, aside, request, isRetry, userId, spreadsheetId, kvStore>>

\* --------------------------------------------------------- specifications
\* One instance, requests one after another, every input.
Next ==
    \/ \E rq \in Requests : Receive(1, rq)
    \/ Return(1)
    \/ \E resp \in IntrospectResponses, now \in Times, cid \in ClientIds :
          ValidateToken(1, resp, now, cid)
    \/ \E resp \in RefreshResponses : RefreshToken(1, resp)
    \/ \E ok \in BOOLEAN : KvGet(1, ok)
    \/ \E ok \in BOOLEAN : KvIncr(1, ok)
    \/ \E ok \in BOOLEAN : KvExpire(1, ok)
    \/ \E u \in AllSubjects : KeyExpires(u)
    \/ \E ok \in BOOLEAN : DriveList(1, ok)
    \/ \E ok \in BOOLEAN : GetHeaders(1, ok)
    \/ \E ok \in BOOLEAN : CreateSheet(1, ok)
    \/ \E ok \in BOOLEAN : AppendRows(1, ok)

Spec == Init /\ [][Next]_vars

\* Every instance, interleaved at the awaits; well-formed requests, a provider
\* that either accepts or rejects a token, and a counter store that answers.
ConcurrentRequests == { [method |-> "POST", body |-> GoodBody(rt)] : rt \in {"", "rt"} }

ConcurrentIntrospectResponses ==
    { resp \in IntrospectResponses :
        \/ resp.kind = "not_ok"
        \/ /\ resp.kind = "ok" /\ resp.aud = CLIENT_ID /\ resp.exp = 2
           /\ resp.scope = <<SCOPE_DRIVE_FILE>> /\ resp.azp = CLIENT_ID }

NextConcurrent ==
    \/ \E r \in Reqs, rq \in ConcurrentRequests : Receive(r, rq)
    \/ \E r \in Reqs : Return(r)
    \/ \E r \in Reqs, resp \in ConcurrentIntrospectResponses, now \in Times :
          ValidateToken(r, resp, now, CLIENT_ID)
    \/ \E r \in Reqs, resp \in {"not_ok", "ok_token"} : RefreshToken(r, resp)
    \/ \E r \in Reqs : KvGet(r, TRUE)
    \/ \E r \in Reqs : KvIncr(r, TRUE)
    \/ \E r \in Reqs : KvExpire(r, TRUE)
    \/ \E u \in AllSubjects : KeyExpires(u)
    \/ \E r \in Reqs, ok \in BOOLEAN : DriveList(r, ok)
    \/ \E r \in Reqs, ok \in BOOLEAN : GetHeaders(r, ok)
    \/ \E r \in Reqs, ok \in BOOLEAN : CreateSheet(r, ok)
    \/ \E r \in Reqs, ok \in BOOLEAN : AppendRows(r, ok)

InitConcurrent ==
    /\ Init
    /\ ~ MOCK_MODE
    /\ ~ production
    /\ drive["u1"] \in { << >>, <<File("S", HeadersAB)>> }

SpecConcurrent == InitConcurrent /\ [][NextConcurrent]_vars

\* Every instance, interleaved at the awaits, when nothing fails: one client
\* sending the same well-formed request with a valid token, every call
\* answering, within one rate-limit window.
ValidIntrospectResponse ==
    [kind |-> "ok", aud |-> CLIENT_ID, exp |-> 2, scope |-> <<SCOPE_SHEETS>>,
     azp |-> CLIENT_ID, sub |-> "u1"]

NextRace ==
    \/ \E r \in Reqs : Receive(r, [method |-> "POST", body |-> GoodBody("")])
    \/ \E r \in Reqs : Return(r)
    \/ \E r \in Reqs, now \in Times :
          ValidateToken(r, ValidIntrospectResponse, now, CLIENT_ID)
    \/ \E r \in Reqs : KvGet(r, TRUE)
    \/ \E r \in Reqs : KvIncr(r, TRUE)
    \/ \E r \in Reqs : KvExpire(r, TRUE)
    \/ \E r \in Reqs : DriveList(r, TRUE)
    \/ \E r \in Reqs : GetHeaders(r, TRUE)
    \/ \E r \in Reqs : CreateSheet(r, TRUE)
    \/ \E r \in Reqs : AppendRows(r, TRUE)

InitRace ==
    /\ Init
    /\ ~ MOCK_MODE
    /\ ~ production
    /\ drive["u1"] = << >>

SpecRace == InitRace /\ [][NextRace]_vars

\* One instance, well-formed requests one after another, with or without a
\* refresh token: every answer of the token provider, a counter store whose
\* calls may fail and whose keys expire, spreadsheet calls that may fail.
NextLimiter ==
    \/ \E rq \in ConcurrentRequests : Receive(1, rq)
    \/ Return(1)
    \/ \E resp \in IntrospectResponses, now \in Times :
          ValidateToken(1, resp, now, CLIENT_ID)
    \/ \E resp \in RefreshResponses : RefreshToken(1, resp)
    \/ \E ok \in BOOLEAN : KvGet(1, ok)
    \/ \E ok \in BOOLEAN : KvIncr(1, ok)
    \/ \E ok \in BOOLEAN : KvExpire(1, ok)
    \/ \E u \in AllSubjects : KeyExpires(u)
    \/ \E ok \in BOOLEAN : DriveList(1, ok)
    \/ \E ok \in BOOLEAN : GetHeaders(1, ok)
    \/ \E ok \in BOOLEAN : CreateSheet(1, ok)
    \/ \E ok \in BOOLEAN : AppendRows(1, ok)

InitLimiter ==
    /\ Init
    /\ ~ production
    /\ drive["u1"] = << >>

SpecLimiter == InitLimiter /\ [][NextLimiter]_vars

\* Two clients with an account each, every instance interleaved at the awaits:
\* well-formed requests with valid tokens, every call answering, within one
\* rate-limit window.
TwoSubjects == {"u1", "u2"}

NextIsolation ==
    \/ \E r \in Reqs : Receive(r, [method |-> "POST", body |-> GoodBody("")])
    \/ \E r \in Reqs : Return(r)
    \/ \E r \in Reqs, sub \in TwoSubjects, now \in Times :
          ValidateToken(r, [ValidIntrospectResponse EXCEPT !.sub = sub], now,
                        CLIENT_ID)
    \/ \E r \in Reqs : KvGet(r, TRUE)
    \/ \E r \in Reqs : KvIncr(r, TRUE)
    \/ \E r \in Reqs : KvExpire(r, TRUE)
    \/ \E r \in Reqs : DriveList(r, TRUE)
    \/ \E r \in Reqs : GetHeaders(r, TRUE)
    \/ \E r \in Reqs : CreateSheet(r, TRUE)
    \/ \E r \in Reqs : AppendRows(r, TRUE)

InitIsolation ==
    /\ MOCK_MODE = FALSE
    /\ production = FALSE
    /\ loaded = ModuleLoads(MOCK_MODE, production)
    /\ pc = [r \in Reqs |-> "idle"]
    /\ request = [r \in Reqs |-> NoRequest]
    /\ isRetry = [r \in Reqs |-> FALSE]
    /\ userId = [r \in Reqs |-> NoUser]
    /\ current = [r \in Reqs |-> -1]
    /\ spreadsheetId = [r \in Reqs |-> 0]
    /\ response = [r \in Reqs |-> NoResponse]
    /\ log = [r \in Reqs |-> NoLog]
    /\ counter = [u \in TwoSubjects |-> 0]
    /\ ttl = [u \in TwoSubjects |-> FALSE]
    /\ granted = [u \in TwoSubjects |-> 0]
    /\ drive = [a \in TwoSubjects |-> << >>]
    /\ tokenCheck = NoTokenCheck
    /\ columnCall = NoColumnCall
    /\ rateLimitStore = EmptyRateLimitStore

SpecIsolation == InitIsolation /\ [][NextIsolation]_vars

\* One request from arrival to response, every input, with the counter store
\* as earlier requests of the window may have left it; every call that is
\* awaited returns or fails, so the continuation of the handler runs.
HandlerStep(r) ==
    \/ \E resp \in IntrospectResponses, now \in Times, cid \in ClientIds :
          ValidateToken(r, resp, now, cid)
    \/ \E resp \in RefreshResponses : RefreshToken(r, resp)
    \/ \E ok \in BOOLEAN : KvGet(r, ok)
    \/ \E ok \in BOOLEAN : KvIncr(r, ok)
    \/ \E ok \in BOOLEAN : KvExpire(r, ok)
    \/ \E ok \in BOOLEAN : DriveList(r, ok)
    \/ \E ok \in BOOLEAN : GetHeaders(r, ok)
    \/ \E ok \in BOOLEAN : CreateSheet(r, ok)
    \/ \E ok \in BOOLEAN : AppendRows(r, ok)

NextLive ==
    \/ \E rq \in Requests : Receive(1, rq)
    \/ HandlerStep(1)
    \/ \E u \in AllSubjects : KeyExpires(u)

InitLive ==
    /\ MOCK_MODE \in BOOLEAN
    /\ production \in BOOLEAN
    /\ loaded = ModuleLoads(MOCK_MODE, production)
    /\ pc = [r \in Reqs |-> "idle"]
    /\ request = [r \in Reqs |-> NoRequest]
    /\ isRetry = [r \in Reqs |-> FALSE]
    /\ userId = [r \in Reqs |-> NoUser]
    /\ current = [r \in Reqs |-> -1]
    /\ spreadsheetId = [r \in Reqs |-> 0]
    /\ response = [r \in Reqs |-> NoResponse]
    /\ log = [r \in Reqs |-> NoLog]
    /\ \E c \in 0 .. RATE_LIMIT :
          /\ counter = [u \in AllSubjects |-> c]
          /\ ttl = [u \in AllSubjects |-> c > 0]
          /\ granted = [u \in AllSubjects |-> c]
    /\ \E d \in InitialDrives : drive = [a \in Subjects |-> d]
    /\ tokenCheck = NoTokenCheck
    /\ columnCall = NoColumnCall
    /\ rateLimitStore = EmptyRateLimitStore

SpecLive == InitLive /\ [][NextLive]_vars /\ WF_vars(HandlerStep(1))

\* validateAccessToken alone: one call for every answer of the tokeninfo
\* endpoint, every time of the check and every value of GOOGLE_CLIENT_ID.
handlerState == <<pc, request, isRetry, userId, current, spreadsheetId,
                  response, log>>

CallValidateAccessToken ==
    /\ tokenCheck.result = "pending"
    /\ tokenCheck' =
          [tokenCheck EXCEPT !.result =
              validateAccessToken(tokenCheck.resp, tokenCheck.now,
                                  tokenCheck.clientId)]
    /\ UNCHANGED <<env, handlerState, kvStore, drive, columnCall,
                   rateLimitStore>>

NextValidate == CallValidateAccessToken

InitValidate ==
    /\ InitHandler
    /\ ~ MOCK_MODE
    /\ ~ production
    /\ drive = [a \in Subjects |-> << >>]
    /\ tokenCheck \in [resp : IntrospectResponses, now : Times,
                       clientId : ClientIds, result : {"pending"}]
    /\ columnCall = NoColumnCall
    /\ rateLimitStore = EmptyRateLimitStore

SpecValidate == InitValidate /\ [][NextValidate]_vars

\* getColumnLetter alone: one call for every column count up to MaxColumn.
CallGetColumnLetter ==
    /\ ~ columnCall.returned
    /\ columnCall' = [columnCall EXCEPT !.returned = TRUE,
                                        !.col = getColumnLetter(columnCall.colIndex)]
    /\ UNCHANGED <<env, handlerState, kvStore, drive, tokenCheck,
                   rateLimitStore>>

NextColumn == CallGetColumnLetter

InitColumn ==
    /\ InitHandler
    /\ ~ MOCK_MODE
    /\ ~ production
    /\ drive = [a \in Subjects |-> << >>]
    /\ tokenCheck = NoTokenCheck
    /\ columnCall \in [colIndex : 0 .. MaxColumn, returned : {FALSE},
                       col : {<< >>}, legacyReturned : {FALSE},
                       letter : {<< >>}]
    /\ rateLimitStore = EmptyRateLimitStore

SpecColumn == InitColumn /\ [][NextColumn]_vars

\* Both getColumnLetter functions called with the same argument, in either
\* order.
CallLegacyGetColumnLetter ==
    /\ ~ columnCall.legacyReturned
    /\ columnCall' =
          [columnCall EXCEPT !.legacyReturned = TRUE,
                             !.letter = LegacyGetColumnLetter(columnCall.colIndex)]
    /\ UNCHANGED <<env, handlerState, kvStore, drive, tokenCheck,
                   rateLimitStore>>

NextColumnPair == CallGetColumnLetter \/ CallLegacyGetColumnLetter

SpecColumnPair == InitColumn /\ [][NextColumnPair]_vars

\* ------------------------------------- the older handler (unnamed/part_000)
\* The handler with the in-memory limiter: no refresh, an ensureHeaders that
\* overwrites, and a catch block that looks at error.code.

\* rowData.filter(row => row.length !== headerCount).length > 0: every row is
\* visited; reading .length of null throws
RECURSIVE FilterRowLengthDiffers(_, _)
FilterRowLengthDiffers(rows, headerCount) ==
    IF rows = << >> THEN "false"
    ELSE IF Head(rows).t = "null" THEN "throw"
    ELSE LET rest == FilterRowLengthDiffers(Tail(rows), headerCount)
         IN  IF rest = "throw" THEN "throw"
             ELSE IF Len(Head(rows).cells) # headerCount THEN "true"
             ELSE rest

\* what a failed googleapis call carries in error.code
BackendResults == {"ok", "denied", "error"}

\* the catch block: error.code 401 / 403, or anything else
LegacyHandleError(kind) ==
    IF kind = "denied" THEN Response(401, "token_expired")
    ELSE Response(500, "server_error")

\* the synchronous part before the first await: the response, or NoResponse
LegacyValidateRequest(body) ==
    IF body.t = "undefined" THEN LegacyHandleError("error")
    ELSE IF body.accessToken = "" \/ body.sheetConfig.t = "undefined"
            \/ body.rowData.t = "undefined"
    THEN MissingFields
    ELSE IF body.sheetConfig.sheetName = "" \/ body.sheetConfig.headers.t # "array"
    THEN InvalidSchema
    ELSE IF body.rowData.t # "array" \/ Len(body.rowData.items) = 0
    THEN InvalidSchema
    ELSE LET some == FilterRowLengthDiffers(body.rowData.items,
                                            Len(body.sheetConfig.headers.items))
         IN  CASE some = "true" -> InvalidSchema
               [] some = "throw" -> LegacyHandleError("error")
               [] OTHER -> NoResponse

\* validateAccessToken of the older handler: the audience is all it checks
LegacyValidateAccessToken(resp, clientId) ==
    IF resp.kind # "ok" THEN NoUser
    ELSE IF clientId # ClientIdUnset /\ resp.aud # clientId THEN NoUser
    ELSE resp.sub

\* checkRateLimit: the count after the call (windowOver: now > resetTime)
LegacyCountAfter(count, windowOver) ==
    LET c == IF windowOver THEN 0 ELSE count
    IN  IF c >= RATE_LIMIT THEN c ELSE c + 1
\* checkRateLimit: its result
LegacyAllowed(count, windowOver) ==
    (IF windowOver THEN 0 ELSE count) < RATE_LIMIT

\* values.update at Sheet1!A1 with one row: the cells given are written, the
\* cells to their right are left as they are
UpdateRow(existing, values) ==
    values \o SubSeq(existing, Len(values) + 1, Len(existing))

LegacySuccessResponse(rowsAdded, id) ==
    [Response(200, "") EXCEPT !.rowsAdded = rowsAdded, !.spreadsheetId = id]

\* checkRateLimit(userId) and what follows it, for subject u
LegacyRateLimit(r, u, windowOver) ==
    /\ rateLimitStore' =
          [rateLimitStore EXCEPT ![u] = LegacyCountAfter(@, windowOver)]
    /\ IF LegacyAllowed(rateLimitStore[u], windowOver)
       THEN /\ pc' = [pc EXCEPT ![r] = "list"]
            /\ UNCHANGED <<response, current>>
       ELSE Respond(r, RateLimited)

legacyUntouched == <<env, isRetry, kvStore, tokenCheck, columnCall>>

LegacyReceive(r, rq, windowOver) ==
    /\ pc[r] = "idle"
    /\ request' = [request EXCEPT ![r] = rq]
    /\ UNCHANGED <<spreadsheetId, log, drive, legacyUntouched>>
    /\ IF rq.method = "OPTIONS"
       THEN /\ pc' = [pc EXCEPT ![r] = "done"]
            /\ response' = [response EXCEPT ![r] = Response(200, "")]
            /\ UNCHANGED <<userId, current, rateLimitStore>>
       ELSE IF rq.method # "POST"
       THEN /\ pc' = [pc EXCEPT ![r] = "done"]
            /\ response' = [response EXCEPT ![r] = MethodNotAllowed]
            /\ UNCHANGED <<userId, current, rateLimitStore>>
       ELSE IF LegacyValidateRequest(rq.body) # NoResponse
       THEN /\ pc' = [pc EXCEPT ![r] = "done"]
            /\ response' = [response EXCEPT ![r] = LegacyValidateRequest(rq.body)]
            /\ UNCHANGED <<userId, current, rateLimitStore>>
       ELSE IF MOCK_MODE
       THEN /\ userId' = [userId EXCEPT ![r] = MOCK_USER]
            /\ LegacyRateLimit(r, MOCK_USER, windowOver)
       ELSE /\ pc' = [pc EXCEPT ![r] = "validate"]
            /\ UNCHANGED <<userId, current, response, rateLimitStore>>

\* await validateAccessToken(accessToken), then the limiter
LegacyValidateToken(r, resp, clientId, windowOver) ==
    /\ pc[r] = "validate"
    /\ LET sub == LegacyValidateAccessToken(resp, clientId)
       IN  /\ log' = [log EXCEPT ![r].val = Append(@, sub # NoUser)]
           /\ userId' = [userId EXCEPT ![r] = sub]
           /\ IF sub = NoUser
              THEN /\ Respond(r, Unauthorized)
                   /\ UNCHANGED rateLimitStore
              ELSE LegacyRateLimit(r, sub, windowOver)
    /\ UNCHANGED <<request, spreadsheetId, drive, legacyUntouched>>

\* await drive.files.list(..)
LegacyDriveList(r, res) ==
    /\ pc[r] = "list"
    /\ log' = [log EXCEPT ![r].sheetCalls = @ + 1,
                          ![r].backendFailed = @ \/ res # "ok"]
    /\ IF res # "ok"
       THEN /\ Respond(r, LegacyHandleError(res))
            /\ UNCHANGED spreadsheetId
       ELSE LET found == FilesNamed(drive[Account(r)],
                                    request[r].body.sheetConfig.sheetName)
            IN  IF found # {}
                THEN /\ \E id \in found :
                            spreadsheetId' = [spreadsheetId EXCEPT ![r] = id]
                     /\ pc' = [pc EXCEPT ![r] = "getHeaders"]
                     /\ UNCHANGED <<response, current>>
                ELSE /\ pc' = [pc EXCEPT ![r] = "create"]
                     /\ UNCHANGED <<response, current, spreadsheetId>>
    /\ UNCHANGED <<request, userId, drive, rateLimitStore, legacyUntouched>>

\* ensureHeaders, first half: await sheets.spreadsheets.values.get(..) and the
\* comparison; the catch block swallows a failed read
LegacyGetHeaders(r, ok) ==
    /\ pc[r] = "getHeaders"
    /\ LET existing == drive[Account(r)][spreadsheetId[r]].firstRow
           headers == request[r].body.sheetConfig.headers.items
           differs == JSONStringify(existing) # JSONStringify(headers)
       IN  /\ log' = [log EXCEPT ![r].sheetCalls = @ + 1,
                                 ![r].backendFailed = @ \/ ~ ok,
                                 ![r].mismatch = ok /\ differs]
           /\ pc' = [pc EXCEPT ![r] = IF ok /\ differs THEN "update" ELSE "append"]
    /\ UNCHANGED <<request, userId, spreadsheetId, response, current, drive,
                   rateLimitStore, legacyUntouched>>

\* an ensureHeaders that warns about the mismatch and writes nothing
LegacyUpdateHeadersSkipped(r, ok) ==
    /\ pc[r] = "update"
    /\ log' = [log EXCEPT ![r].sheetCalls = @ + 1,
                          ![r].backendFailed = @ \/ ~ ok]
    /\ pc' = [pc EXCEPT ![r] = "append"]
    /\ UNCHANGED <<request, userId, spreadsheetId, response, current, drive,
                   rateLimitStore, legacyUntouched>>

\* ensureHeaders, second half: await sheets.spreadsheets.values.update(..) at
\* Sheet1!A1; the catch block swallows a failed write
LegacyUpdateHeaders(r, ok) ==
    /\ pc[r] = "update"
    /\ log' = [log EXCEPT ![r].sheetCalls = @ + 1,
                          ![r].backendFailed = @ \/ ~ ok]
    /\ drive' = IF ok
                THEN [drive EXCEPT ![Account(r)][spreadsheetId[r]].firstRow =
                         UpdateRow(@, request[r].body.sheetConfig.headers.items)]
                ELSE drive
    /\ pc' = [pc EXCEPT ![r] = "append"]
    /\ UNCHANGED <<request, userId, spreadsheetId, response, current,
                   rateLimitStore, legacyUntouched>>

\* await sheets.spreadsheets.create(..)
LegacyCreateSheet(r, res) ==
    /\ pc[r] = "create"
    /\ res = "ok" => Len(drive[Account(r)]) < MaxFiles
    /\ log' = [log EXCEPT ![r].sheetCalls = @ + 1,
                          ![r].backendFailed = @ \/ res # "ok"]
    /\ IF res # "ok"
       THEN /\ Respond(r, LegacyHandleError(res))
            /\ UNCHANGED <<spreadsheetId, drive>>
       ELSE /\ drive' = [drive EXCEPT ![Account(r)] =
                  Append(@, File(request[r].body.sheetConfig.sheetName,
                                 request[r].body.sheetConfig.headers.items))]
            /\ spreadsheetId' =
                  [spreadsheetId EXCEPT ![r] = Len(drive[Account(r)]) + 1]
            /\ pc' = [pc EXCEPT ![r] = "append"]
            /\ UNCHANGED <<response, current>>
    /\ UNCHANGED <<request, userId, rateLimitStore, legacyUntouched>>

\* appendData: await sheets.spreadsheets.values.append(..), then the 200
LegacyAppendRows(r, res) ==
    /\ pc[r] = "append"
    /\ LET rows == request[r].body.rowData.items
           file == drive[Account(r)][spreadsheetId[r]]
       IN  /\ res = "ok" => Len(file.rows) + Len(rows) <= MaxRows
           /\ log' = [log EXCEPT ![r].sheetCalls = @ + 1,
                                 ![r].appendCalls = @ + 1,
                                 ![r].backendFailed = @ \/ res # "ok"]
           /\ IF res # "ok"
              THEN /\ Respond(r, LegacyHandleError(res))
                   /\ UNCHANGED drive
              ELSE /\ drive' = [drive EXCEPT ![Account(r)][spreadsheetId[r]].rows
                                                 = @ \o rows]
                   /\ Respond(r, LegacySuccessResponse(Len(rows), spreadsheetId[r]))
    /\ UNCHANGED <<request, userId, spreadsheetId, rateLimitStore, legacyUntouched>>

\* the requests sent to the older handler: it reads no refreshToken
LegacyRequests == { rq \in Requests : rq.body.refreshToken = "" }

\* Drive before the first request to the older handler; the last first row
\* has more cells than the clients' headers
LegacyDrives == InitialDrives \cup { <<File("S", <<"B", "A", "C">>)>> }

\* One instance of the older handler, requests one after another.
NextLegacy ==
    \/ \E rq \in LegacyRequests, over \in BOOLEAN : LegacyReceive(1, rq, over)
    \/ Return(1)
    \/ \E resp \in IntrospectResponses, cid \in ClientIds, over \in BOOLEAN :
          LegacyValidateToken(1, resp, cid, over)
    \/ \E res \in BackendResults : LegacyDriveList(1, res)
    \/ \E ok \in BOOLEAN : LegacyGetHeaders(1, ok)
    \/ \E ok \in BOOLEAN : LegacyUpdateHeaders(1, ok)
    \/ \E res \in BackendResults : LegacyCreateSheet(1, res)
    \/ \E res \in BackendResults : LegacyAppendRows(1, res)

\* the older module has no start-up check: it loads in every environment
InitLegacy ==
    /\ MOCK_MODE \in BOOLEAN
    /\ production \in BOOLEAN
    /\ loaded = TRUE
    /\ pc = [r \in Reqs |-> "idle"]
    /\ request = [r \in Reqs |-> NoRequest]
    /\ isRetry = [r \in Reqs |-> FALSE]
    /\ userId = [r \in Reqs |-> NoUser]
    /\ current = [r \in Reqs |-> -1]
    /\ spreadsheetId = [r \in Reqs |-> 0]
    /\ response = [r \in Reqs |-> NoResponse]
    /\ log = [r \in Reqs |-> NoLog]
    /\ counter = [u \in AllSubjects |-> 0]
    /\ ttl = [u \in AllSubjects |-> FALSE]
    /\ granted = [u \in AllSubjects |-> 0]
    /\ \E d \in LegacyDrives : drive = [a \in Subjects |-> d]
    /\ tokenCheck = NoTokenCheck
    /\ columnCall = NoColumnCall
    /\ rateLimitStore = EmptyRateLimitStore

SpecLegacy == InitLegacy /\ [][NextLegacy]_vars

\* ------------------------------------------------------------------ claims
Done(r) == pc[r] = "done"
SheetSteps == {"list", "getHeaders", "create", "append"}
NoDownstreamCall(r) ==
    /\ log[r].val = << >> /\ log[r].ref = << >>
    /\ log[r].kvCalls = 0 /\ log[r].sheetCalls = 0

\* C1: a request that passed validation, the token check and the rate limit
\* and finds a spreadsheet of the requested name whose first row differs from
\* sheetConfig.headers is answered 400 header_mismatch (stated for the requests
\* none of whose store and backend calls failed).
C1_HeaderMismatchRejected ==
    \A r \in Reqs :
        ( /\ Done(r) /\ log[r].mismatch
          /\ log[r].val # << >> /\ log[r].val[Len(log[r].val)]
          /\ ~ log[r].kvFailed /\ ~ log[r].backendFailed )
        => response[r] = Response(400, "header_mismatch")

\* C2: a request that has seen a first row different from sheetConfig.headers
\* never invokes the row append.
C2_NoAppendOnMismatch ==
    \A r \in Reqs : log[r].mismatch => log[r].appendCalls = 0

\* C3: under every interleaving of instances sharing the store, neither the
\* number of grants in a window nor the stored counter exceeds the threshold.
C3_CounterWithinThreshold ==
    \A u \in AllSubjects : counter[u] <= RATE_LIMIT /\ granted[u] <= RATE_LIMIT

\* C4 as stated: a request whose subject's counter has reached the threshold
\* when the limiter looks is answered 429 and makes no spreadsheet call.
C4_DeniedAtThreshold ==
    \A r \in Reqs :
        log[r].atLimit =>
            Done(r) /\ response[r] = RateLimited /\ log[r].sheetCalls = 0

\* C4 amended: the same, provided the counter-store read succeeded (a failed
\* read lets the request through, the fail-open policy).
C4_DeniedAtThresholdWhenStoreAnswers ==
    \A r \in Reqs :
        (log[r].atLimit /\ ~ log[r].kvFailed) =>
            Done(r) /\ response[r] = RateLimited /\ log[r].sheetCalls = 0

C4_Witness ==
    \E r \in Reqs :
        /\ log[r].atLimit /\ ~ log[r].kvFailed
        /\ Done(r) /\ response[r].status = 429 /\ log[r].val # << >>

\* C5: no subject stays denied forever: whenever no request is inside the
\* limiter, a counter at or above the threshold has an expiry pending, so the
\* window ends, the counter resets and the next request passes.  (Without an
\* expiry nothing ever changes the key: every read finds it at the threshold.)
C5_DenialAlwaysExpires ==
    (\A r \in Reqs : pc[r] \notin {"kvIncr", "kvExpire"}) =>
        \A u \in AllSubjects : counter[u] >= RATE_LIMIT => ttl[u]

\* C6: once a counter-store call of a request has failed, the limiter has
\* returned "allowed": the request is in or past the spreadsheet steps, is
\* never answered 429, and is answered 500 only after a backend failure.
C6_StoreFailureFailsOpen ==
    \A r \in Reqs :
        log[r].kvFailed =>
            /\ pc[r] \in SheetSteps \cup {"done"}
            /\ Done(r) => /\ log[r].sheetCalls >= 1
                          /\ response[r].status # 429
                          /\ response[r].status = 500 => log[r].backendFailed

C6_Witness ==
    \E r \in Reqs : log[r].kvFailed /\ Done(r) /\ response[r].status = 200

\* C7: a request makes at most one refresh exchange and at most two token
\* validations.
C7_AtMostOneRefresh ==
    \A r \in Reqs : Len(log[r].ref) <= 1 /\ Len(log[r].val) <= 2

C7_Witness ==
    \E r \in Reqs : Done(r) /\ Len(log[r].ref) = 1 /\ Len(log[r].val) = 2

\* C8: a 200 carries tokenRefreshed = TRUE exactly when the refresh exchange
\* of the request returned a new token and the sync ran as the retry, and
\* FALSE when the supplied token passed validation.
C8_TokenRefreshedFlag ==
    \A r \in Reqs :
        response[r].status = 200 =>
            /\ response[r].tokenRefreshed <=>
                   (log[r].ref = <<"ok_token">> /\ isRetry[r])
            /\ (log[r].val # << >> /\ log[r].val[1])
                   => ~ response[r].tokenRefreshed

C8_Witness ==
    \E r \in Reqs : response[r].status = 200 /\ response[r].tokenRefreshed

C10_RowLengthMismatchRejected ==
    \A r \in Reqs :
        LET b == request[r].body
        IN  ( /\ request[r].method = "POST"
              /\ b.t = "object" /\ b.accessToken # ""
              /\ b.sheetConfig.t = "object" /\ b.sheetConfig.sheetName # ""
              /\ b.sheetConfig.headers.t = "array"
              /\ b.rowData.t = "array" /\ b.rowData.items # << >>
              /\ \E i \in 1 .. Len(b.rowData.items) :
                    /\ b.rowData.items[i].t # "null"
                    /\ Len(b.rowData.items[i].cells)
                           # Len(b.sheetConfig.headers.items) )
            => response[r] = InvalidSchema /\ NoDownstreamCall(r)

\* C11: a POST whose body lacks accessToken, sheetConfig or rowData, or holds
\* a falsy value for one of them, is answered 400 missing_fields whatever the
\* other fields are, and no downstream call is made.
LacksField(b) ==
    \/ b.t = "undefined"
    \/ b.accessToken = ""
    \/ b.sheetConfig.t = "undefined"
    \/ b.rowData.t = "undefined"

C11_MissingFieldsRejected ==
    \A r \in Reqs :
        (request[r].method = "POST" /\ LacksField(request[r].body))
        => Done(r) /\ response[r] = MissingFields /\ NoDownstreamCall(r)

\* the request shape: the three fields, a sheetConfig with a name and a
\* headers array, and rowData a non-empty array of arrays of headers.length
WellFormed(b) ==
    /\ b.t = "object" /\ b.accessToken # ""
    /\ b.sheetConfig.t = "object" /\ b.sheetConfig.sheetName # ""
    /\ b.sheetConfig.headers.t = "array"
    /\ b.rowData.t = "array" /\ b.rowData.items # << >>
    /\ \A i \in 1 .. Len(b.rowData.items) :
          /\ b.rowData.items[i].t = "array"
          /\ Len(b.rowData.items[i].cells) = Len(b.sheetConfig.headers.items)

\* C12: a POST whose body violates the request shape (a rowData element that
\* is null or a scalar and a request without a body included) is answered 400
\* missing_fields or invalid_schema; it never reaches token validation or any
\* later step and is never answered 200 or 500.
C12_ShapeViolationRejected ==
    \A r \in Reqs :
        (request[r].method = "POST" /\ ~ WellFormed(request[r].body))
        => /\ Done(r) /\ NoDownstreamCall(r)
           /\ response[r] \in {MissingFields, InvalidSchema}

\* a direct call of validateAccessToken on a token description has returned
TokenChecked == tokenCheck.result # "pending" /\ tokenCheck.resp.kind = "ok"
TokenRejected == tokenCheck.result = NoUser
TokenAccepted == tokenCheck.result = tokenCheck.resp.sub
InAcceptedSet(scope) ==
    /\ scope # NoScope
    /\ \E i \in 1 .. Len(scope) : scope[i] \in {SCOPE_SHEETS, SCOPE_DRIVE_FILE}

\* C13: validateAccessToken returns null for every token whose expiry is at
\* or before the current time in seconds, expiry = now included, whatever the
\* audience, scope and authorized party are.
C13_ExpiredTokenRejected ==
    (TokenChecked /\ tokenCheck.resp.exp <= tokenCheck.now) => TokenRejected

C15_ScopeGate ==
    TokenChecked =>
        /\ ~ InAcceptedSet(tokenCheck.resp.scope) => TokenRejected
        /\ ( /\ InAcceptedSet(tokenCheck.resp.scope)
             /\ tokenCheck.resp.exp > tokenCheck.now
             /\ \/ tokenCheck.clientId = ClientIdUnset
                \/ /\ tokenCheck.resp.aud = tokenCheck.clientId
                   /\ tokenCheck.resp.azp \in {"", tokenCheck.clientId} )
           => TokenAccepted

C15_Witness ==
    /\ TokenChecked /\ TokenRejected
    /\ tokenCheck.clientId = CLIENT_ID /\ tokenCheck.resp.aud = CLIENT_ID
    /\ tokenCheck.resp.exp > tokenCheck.now
    /\ tokenCheck.resp.scope = <<"email">>
    /\ tokenCheck.resp.azp = CLIENT_ID

C17_UnauthorizedTouchesNothing ==
    \A r \in Reqs :
        response[r] = Unauthorized =>
            /\ log[r].kvCalls = 0 /\ log[r].sheetCalls = 0
            /\ log[r].appendCalls = 0 /\ spreadsheetId[r] = 0

C17_Witness ==
    \E r \in Reqs :
        /\ Done(r) /\ response[r] = Unauthorized
        /\ log[r].val = <<FALSE, FALSE>>
        /\ counter["u1"] > 0

\* the token step of a request has ended with a valid token (none is needed
\* in mock mode)
TokenStepPassed(r) ==
    MOCK_MODE \/ (log[r].val # << >> /\ log[r].val[Len(log[r].val)])
\* checkRateLimit has returned true: the counter read found it below the
\* threshold, or a store call failed
LimiterGranted(r) ==
    log[r].kvCalls >= 1 /\ (log[r].kvFailed \/ ~ log[r].atLimit)

\* C18: the steps of a request come in the order shape validation, token
\* validation / refresh, rate-limit check, spreadsheet resolution, append,
\* response; a step starts only after the one before it succeeded, and no
\* spreadsheet call precedes a granted rate-limit check.
C18_StepsInOrder ==
    \A r \in Reqs :
        /\ pc[r] \notin {"idle", "done"}
              => ValidateRequest(request[r].body) = NoResponse
        /\ pc[r] \in {"validate", "refresh"}
              => log[r].kvCalls = 0 /\ log[r].sheetCalls = 0
        /\ (pc[r] \in {"kvGet", "kvIncr", "kvExpire"} \/ log[r].kvCalls >= 1)
              => TokenStepPassed(r)
        /\ pc[r] \in {"kvGet", "kvIncr", "kvExpire"} => log[r].sheetCalls = 0
        /\ (pc[r] \in SheetSteps \/ log[r].sheetCalls >= 1)
              => TokenStepPassed(r) /\ LimiterGranted(r)
        /\ (pc[r] = "append" \/ log[r].appendCalls >= 1)
              => log[r].sheetCalls >= 2 /\ spreadsheetId[r] # 0
        /\ (request[r].method = "POST" /\ response[r].status = 200)
              => Done(r) /\ log[r].appendCalls = 1 /\ log[r].sheetCalls = 3
        /\ (Done(r) /\ request[r].method = "POST")
              => response[r] # NoResponse

C18_Witness ==
    \E r \in Reqs :
        /\ Done(r) /\ response[r].status = 200
        /\ log[r].val = <<FALSE, TRUE>> /\ log[r].ref = <<"ok_token">>
        /\ log[r].kvCalls = 3 /\ log[r].sheetCalls = 3

\* C19: a request one of whose Drive / Sheets calls failed (file search,
\* first-row read, create, append) is answered 500 server_error, and never 200
\* (stated for requests with a validated token whose counter-store calls all
\* succeeded; the header-mismatch condition is not a failed call).
C19_BackendFailureIsServerError ==
    \A r \in Reqs :
        ( /\ Done(r) /\ log[r].backendFailed
          /\ log[r].val # << >> /\ ~ log[r].kvFailed )
        => response[r] = Response(500, "server_error")

\* C20: findOrCreateSpreadsheet goes on to create only when the search found
\* no non-trashed spreadsheet of the name; when it found one it returns the
\* id of a found one and creates nothing; a create adds exactly one
\* spreadsheet, titled with the sheet name, its first row the headers in
\* order, and returns its id; and the id returned is the spreadsheetId of the
\* 200 response.
C20_FindOrCreate ==
    [][ \A r \in Reqs :
          LET d == drive[Account(r)]
              name == request[r].body.sheetConfig.sheetName
              headers == request[r].body.sheetConfig.headers.items
              hits == { i \in 1 .. Len(d) : d[i].name = name /\ ~ d[i].trashed }
          IN  /\ (pc[r] = "list" /\ pc'[r] = "create") => hits = {}
              /\ (pc[r] = "list" /\ pc'[r] # "list" /\ hits # {})
                    => pc'[r] \in {"getHeaders", "done"}
              /\ (pc[r] = "list" /\ pc'[r] = "getHeaders")
                    => spreadsheetId'[r] \in hits /\ drive' = drive
              /\ (pc[r] = "create" /\ pc'[r] = "append")
                    => /\ drive'[Account(r)] =
                             Append(d, [name |-> name, firstRow |-> headers,
                                        rows |-> << >>, trashed |-> FALSE])
                       /\ spreadsheetId'[r] = Len(d) + 1
              /\ (pc[r] = "create" /\ pc'[r] = "done") => drive' = drive
              /\ (pc[r] \in {"getHeaders", "append"} /\ pc'[r] # pc[r])
                    => /\ Len(drive'[Account(r)]) = Len(d)
                       /\ spreadsheetId'[r] = spreadsheetId[r]
              /\ ( /\ pc[r] = "append" /\ pc'[r] = "done"
                   /\ response'[r].status = 200 )
                    => response'[r].spreadsheetId = spreadsheetId[r]
      ]_vars

C20_Witness ==
    \E r \in Reqs :
        /\ Done(r) /\ response[r].status = 200
        /\ response[r].spreadsheetId = 2
        /\ Len(drive["u1"]) = 2
        /\ drive["u1"][1].trashed /\ drive["u1"][1].name = "S"
        /\ drive["u1"][2].name = "S" /\ ~ drive["u1"][2].trashed
        /\ drive["u1"][2].firstRow = request[r].body.sheetConfig.headers.items

RECURSIVE Bijective26(_)
Bijective26(col) ==
    IF col = << >> THEN 0
    ELSE 26 * Bijective26(SubSeq(col, 1, Len(col) - 1)) + (col[Len(col)] - 64)

\* C22: for n >= 1 getColumnLetter(n) is the bijective base-26 numeral of n:
\* a non-empty string of capital letters whose value is n (so decoding gives
\* n back), different from the result for every other n in range, and equal
\* to A, Z, AA, AZ, BA, ZZ, AAA for 1, 26, 27, 52, 53, 702, 703.
C22_ColumnLetterBijective ==
    (columnCall.returned /\ columnCall.colIndex >= 1) =>
        LET n == columnCall.colIndex
            col == columnCall.col
        IN  /\ col # << >>
            /\ \A i \in 1 .. Len(col) : col[i] \in 65 .. 90
            /\ Bijective26(col) = n
            /\ \A m \in 1 .. MaxColumn : m # n => getColumnLetter(m) # col
            /\ n = 1 => col = <<65>>
            /\ n = 26 => col = <<90>>
            /\ n = 27 => col = <<65, 65>>
            /\ n = 52 => col = <<65, 90>>
            /\ n = 53 => col = <<66, 65>>
            /\ n = 702 => col = <<90, 90>>
            /\ n = 703 => col = <<65, 65, 65>>

C22_Witness ==
    /\ columnCall.returned /\ columnCall.colIndex = 703
    /\ columnCall.col = <<65, 65, 65>>

\* C23: on every path, the refresh retry and downstream failures included, a
\* request invokes the row append at most once.
C23_AtMostOneAppend ==
    \A r \in Reqs : log[r].appendCalls <= 1

C23_Witness ==
    \E r \in Reqs :
        /\ Done(r) /\ log[r].appendCalls = 1 /\ log[r].backendFailed
        /\ log[r].val = <<FALSE, TRUE>> /\ response[r].status = 500

\* C24: with MOCK_MODE on and NODE_ENV = production the module fails to load
\* and no request is ever served; whenever a request is being handled or has
\* been answered, the two are not both set.
C24_NoMockInProduction ==
    /\ (MOCK_MODE /\ production) =>
          /\ ~ loaded
          /\ \A r \in Reqs : /\ pc[r] = "idle" /\ request[r] = NoRequest
                             /\ response[r] = NoResponse /\ log[r] = NoLog
    /\ (\E r \in Reqs : pc[r] # "idle") => ~ (MOCK_MODE /\ production)

C24_Witness == MOCK_MODE /\ production /\ ~ loaded

\* C25: in mock mode no request calls the identity provider (no token
\* introspection, no refresh exchange), every request past validation runs
\* as the subject mock_user_123, and none is answered 401.
C25_MockSkipsProvider ==
    MOCK_MODE =>
        \A r \in Reqs :
            /\ log[r].val = << >> /\ log[r].ref = << >>
            /\ pc[r] \notin {"validate", "refresh"}
            /\ response[r].status # 401
            /\ (pc[r] \in {"kvGet", "kvIncr", "kvExpire"} \cup SheetSteps
                \/ log[r].kvCalls >= 1)
                  => userId[r] = "mock_user_123"
            /\ counter["u1"] = 0

C25_Witness ==
    \E r \in Reqs :
        /\ MOCK_MODE /\ Done(r) /\ response[r].status = 200
        /\ request[r].body.refreshToken # ""
        /\ userId[r] = "mock_user_123" /\ counter["mock_user_123"] = 1

\* C26: an OPTIONS request is answered 200 with the CORS headers and nothing
\* of its body is looked at; a request of any method other than POST and
\* OPTIONS is answered 405 method_not_allowed whatever its body; neither
\* makes a provider, counter-store or spreadsheet call.
C26_PreflightAndOtherMethods ==
    \A r \in Reqs :
        /\ request[r].method = "OPTIONS" =>
              /\ Done(r) /\ NoDownstreamCall(r)
              /\ response[r].status = 200 /\ response[r].error = ""
              /\ response[r].cors =
                    [allowOrigin |-> "*", allowMethods |-> "POST, OPTIONS",
                     allowHeaders |-> "Content-Type"]
        /\ request[r].method \notin {"", "POST", "OPTIONS"} =>
              /\ Done(r) /\ NoDownstreamCall(r)
              /\ response[r].status = 405
              /\ response[r].error = "method_not_allowed"

C26_Witness ==
    \E r \in Reqs :
        /\ request[r].method = "GET" /\ request[r].body = NoBody
        /\ Done(r) /\ response[r].status = 405

C29_EmptyHeadersRejected ==
    \A r \in Reqs :
        LET b == request[r].body
        IN  ( /\ request[r].method = "POST" /\ b.t = "object"
              /\ b.sheetConfig.t = "object"
              /\ b.sheetConfig.headers = Arr(<< >>) )
            => /\ Done(r) /\ response[r].status = 400 /\ NoDownstreamCall(r)
               /\ ( /\ b.accessToken # "" /\ b.rowData.t # "undefined"
                    /\ b.sheetConfig.sheetName # "" )
                  => response[r] = InvalidSchema

\* C28: nothing coordinates the creates of concurrent requests: a request that
\* searched before another request's create goes on to create, and its create
\* adds a further spreadsheet of the name even though one exists by then (so
\* two same-named spreadsheets of one user are reachable, the witness).
C28_CreateIsUncoordinated ==
    [][ \A r \in Reqs :
          (pc[r] = "create" /\ pc'[r] = "append")
          => /\ drive'[Account(r)] =
                   Append(drive[Account(r)],
                          [name |-> request[r].body.sheetConfig.sheetName,
                           firstRow |-> request[r].body.sheetConfig.headers.items,
                           rows |-> << >>, trashed |-> FALSE])
             /\ spreadsheetId'[r] = Len(drive[Account(r)]) + 1
      ]_vars

C28_Witness ==
    /\ Len(drive["u1"]) = 2
    /\ drive["u1"][1].name = "S" /\ ~ drive["u1"][1].trashed
    /\ drive["u1"][2].name = "S" /\ ~ drive["u1"][2].trashed
    /\ \E r, q \in Reqs :
          /\ r # q /\ userId[r] = userId[q]
          /\ spreadsheetId[r] = 1 /\ spreadsheetId[q] = 2
          /\ response[r].status = 200 /\ response[q].status = 200


C32_PositiveCounterHasExpiry ==
    (\A r \in Reqs : pc[r] # "kvExpire") =>
        \A u \in AllSubjects : counter[u] > 0 => ttl[u]


C34_DenialLeavesCounter ==
    [][ \A r \in Reqs :
          /\ (response'[r].status = 429 /\ response[r].status # 429)
             => /\ pc[r] = "kvGet"
                /\ counter[userId[r]] >= RATE_LIMIT
                /\ log'[r].kvCalls = 1
                /\ counter' = counter /\ ttl' = ttl /\ granted' = granted
          /\ (response[r].status = 429 /\ response'[r].status = 429)
             => log'[r] = log[r]
      ]_vars

C34_Witness ==
    \E r \in Reqs :
        /\ Done(r) /\ response[r].status = 429
        /\ log[r].kvCalls = 1 /\ log[r].sheetCalls = 0
        /\ counter[userId[r]] = RATE_LIMIT
        /\ ttl[userId[r]]


\* C35: outside bypass mode, a step of a request leaves the counter, the
\* expiry and the grants of every subject other than the request's own as they
\* were, and the outcome of its kv.get is decided by its own subject's counter
\* alone: 429 exactly when the read answered and that counter is at or above
\* the threshold, and the value it keeps is that counter.
C35_LimiterIsolatedPerSubject ==
    [][ \A r \in Reqs :
          pc'[r] # pc[r] =>
             /\ \A u \in DOMAIN counter :
                   u # userId[r] => /\ counter'[u] = counter[u]
                                    /\ ttl'[u] = ttl[u]
                                    /\ granted'[u] = granted[u]
             /\ pc[r] = "kvGet" =>
                   /\ response'[r].status = 429
                         <=> (~ log'[r].kvFailed
                              /\ counter[userId[r]] >= RATE_LIMIT)
                   /\ pc'[r] = "kvIncr" => current'[r] = counter[userId[r]]
      ]_vars

C35_Witness ==
    \E a, b \in Reqs :
        /\ userId[a] = "u1" /\ Done(a) /\ response[a].status = 429
        /\ counter["u1"] >= RATE_LIMIT
        /\ userId[b] = "u2" /\ Done(b) /\ response[b].status = 200
        /\ ~ log[b].kvFailed
        /\ counter["u2"] = 1


\* C36: when every awaited call returns or fails, every request that has
\* arrived ends with a response whose status is 200, 400, 401, 405, 429 or
\* 500; a response, once sent, is the only one (it is never replaced and the
\* handler takes no further step); and a request validates a token at most
\* twice and exchanges a refresh token at most once.
C36_TerminatesWithOneResponse ==
    /\ \A r \in Reqs :
          (pc[r] # "idle") ~>
             (pc[r] = "done"
              /\ response[r].status \in {200, 400, 401, 405, 429, 500})
    /\ [][ \A r \in Reqs :
             response[r] # NoResponse
             => response'[r] = response[r] /\ pc'[r] = pc[r] /\ log'[r] = log[r]
         ]_vars
    /\ [](\A r \in Reqs :
             /\ Len(log[r].val) <= 2
             /\ Len(log[r].ref) <= 1
             /\ (pc[r] = "done") <=> (response[r] # NoResponse))

C36_Witness ==
    /\ Done(1)
    /\ response[1].status = 200
    /\ response[1].tokenRefreshed
    /\ log[1].val = <<FALSE, TRUE>>
    /\ Len(log[1].ref) = 1


\* C37: outside bypass mode, every token a Drive / Sheets call of a request
\* has carried is a token that the request sent for validation and that
\* passed; after a refresh it is the new token alone, and the token of the
\* request body, which was rejected, is carried by no call.
C37_BackendCallsCarryValidatedToken ==
    ~ MOCK_MODE =>
        \A r \in Reqs :
            /\ \A t \in log[r].tokensUsed :
                  \E i \in 1 .. Len(log[r].validated) :
                      log[r].validated[i] = t /\ log[r].val[i]
            /\ Len(log[r].validated) = Len(log[r].val)
            /\ log[r].sheetCalls > 0 => log[r].tokensUsed # {}
            /\ (isRetry[r] /\ log[r].sheetCalls > 0)
               => /\ log[r].tokensUsed = {NewAccessToken}
                  /\ log[r].validated =
                        <<request[r].body.accessToken, NewAccessToken>>
                  /\ log[r].val = <<FALSE, TRUE>>
                  /\ request[r].body.accessToken \notin log[r].tokensUsed

C37_Witness ==
    /\ ~ MOCK_MODE
    /\ Done(1)
    /\ response[1].status = 200
    /\ log[1].val = <<FALSE, TRUE>>
    /\ log[1].validated = <<"tok", NewAccessToken>>
    /\ log[1].tokensUsed = {NewAccessToken}
    /\ log[1].sheetCalls = 3


\* C38: a POST answered 200 has passed the shape validation, has a validated
\* token (or runs in bypass mode), was let through by the rate-limit check,
\* has resolved a spreadsheet that exists in the account's Drive and that the
\* response names, and has made its one append call, which succeeded: the
\* spreadsheet ends with the request's rows and the response counts them.
C38_SuccessOnlyAfterEveryStep ==
    \A r \in Reqs :
        (request[r].method = "POST" /\ response[r].status = 200)
        => /\ ValidateRequest(request[r].body) = NoResponse
           /\ TokenStepPassed(r)
           /\ LimiterGranted(r)
           /\ spreadsheetId[r] \in 1 .. Len(drive[Account(r)])
           /\ response[r].spreadsheetId = spreadsheetId[r]
           /\ log[r].appendCalls = 1
           /\ LET rows == request[r].body.rowData.items
                  have == drive[Account(r)][spreadsheetId[r]].rows
              IN  /\ response[r].rowsAdded = Len(rows)
                  /\ Len(have) >= Len(rows)
                  /\ SubSeq(have, Len(have) - Len(rows) + 1, Len(have)) = rows

C38_Witness ==
    /\ request[1].method = "POST"
    /\ response[1].status = 200
    /\ ~ response[1].tokenRefreshed
    /\ log[1].val = <<TRUE>>
    /\ log[1].kvCalls = 3 /\ ~ log[1].kvFailed
    /\ ~ log[1].backendFailed /\ ~ log[1].mismatch
    /\ response[1].spreadsheetId = 1
    /\ response[1].rowsAdded = 2


\* C39: called with the same n in 0 .. MaxColumn, getColumnLetter of
\* api/sync.js and getColumnLetter of unnamed/part_000 return the same string,
\* and for n = 0 each returns the empty string.
C39_ColumnLetterImplementationsAgree ==
    /\ (columnCall.returned /\ columnCall.legacyReturned)
          => columnCall.col = columnCall.letter
    /\ (columnCall.returned /\ columnCall.colIndex = 0)
          => columnCall.col = << >>
    /\ (columnCall.legacyReturned /\ columnCall.colIndex = 0)
          => columnCall.letter = << >>

C39_Witness ==
    /\ columnCall.returned /\ columnCall.legacyReturned
    /\ columnCall.colIndex = 702
    /\ columnCall.letter = <<90, 90>>
    /\ columnCall.col = <<90, 90>>

====
